---- MODULE Spec2Model ----
(***************************************************************************)
(* Model of backend/ai_service.py (class AIService): the project           *)
(* generation pipeline generate_complete_project with its three agent      *)
(* roles, the response extractors and the fallback templates.              *)
(*                                                                         *)
(* Text is a sequence of atoms.  An atom is a piece of text that the code  *)
(* either searches for as a whole (a fence, a tag, a label) or never looks *)
(* inside (content); Width gives its length in characters.  The string    *)
(* operations in, split, find, rfind, replace and strip are modelled on    *)
(* atom sequences.                                                         *)
(***************************************************************************)
EXTENDS Integers, Sequences, FiniteSets, TLC

----------------------------------------------------------------------------
(* Bounds of the model *)

\* largest number of content atoms in the body of a generated HTML document
MaxBody == 1
\* largest number of occurrences of one closing tag in a generated document
MaxClose == 2
\* largest number of fenced blocks in a text given to the extractor
MaxBlocks == 2
\* number of generations that run concurrently on one AIService
MaxCalls == 2

----------------------------------------------------------------------------
(* Text primitives *)

\* the fence delimiter: three backquote characters, each one atom
Fence == <<"[backquote]", "[backquote]", "[backquote]">>

\* characters removed by str.strip()
IsSpace(a) == a \in {"\n", " ", "    "}

\* length in characters of one atom
Width(a) ==
  CASE a = "[backquote]" -> 1
    [] a = "\n" -> 1
    [] a = " " -> 1
    [] a = "    " -> 4
    [] a \in {"j", "s", "o", "n"} -> 1
    [] a = "html" -> 4
    [] a = "css" -> 3
    [] a = "javascript" -> 10
    [] a = "python" -> 6
    [] a = "txt" -> 3
    [] a = "<!DOCTYPE" -> 9
    [] a = "html>" -> 5
    [] a = "<html" -> 5
    [] a = ">" -> 1
    [] a = "lang=\"en\">" -> 10
    [] a = "<head>" -> 6
    [] a = "</head>" -> 7
    [] a = "<body>" -> 6
    [] a = "</body>" -> 7
    [] a = "</html>" -> 7
    [] a = "<link" -> 5
    [] a = "rel=\"stylesheet\" href=\"styles.css\">" -> 35
    [] a = "<script" -> 7
    [] a = "src=\"app.js\">" -> 13
    [] a = "</script>" -> 9
    [] a = "content*1" -> 1
    [] a = "content*420" -> 420
    [] a = "content*388" -> 388
    [] a = "body{margin:0}" -> 14
    [] a = "css*300" -> 300
    [] a = "init();" -> 7
    [] a = "app = FastAPI()" -> 15
    [] a = "fastapi" -> 7
    [] a = "video fallback head elements" -> 131
    [] a = "video fallback body elements" -> 1009
    [] a = "video fallback css" -> 3910
    [] a = "video fallback js" -> 3828
    [] a = "/* Video Platform Styles */" -> 27
    [] a = "video enhancement rules" -> 1623
    [] a = "generic enhancement rules" -> 390
    [] a = "fastapi==0.104.1\nuvicorn==0.24.0\nmotor==3.3.2\npydantic==2.5.0\npython-dotenv==1.0.0" -> 82
    [] a = "# Generated Project" -> 19
    [] a = "## Features\n- Modern UI\n- Responsive design\n- Working functionality" -> 67
    [] a = "# " -> 2
    [] a = "{\n  \"name\": \"generated-app\",\n  \"version\": \"1.0.0\"\n}" -> 51
    [] a = "build me a simple landing page" -> 30
    [] a = "make a youtube clone" -> 20
    [] a = "Here is your page:" -> 18
    [] a = "Enjoy!" -> 6
    [] a = "I cannot help with that" -> 23
    [] a = "Here is the analysis:" -> 21
    [] a = "Done." -> 5
    \* the atoms of JSON text, which the code never measures
    [] OTHER -> 1

RECURSIVE TextLen(_)
\* len(text)
TextLen(t) == IF t = <<>> THEN 0 ELSE Width(Head(t)) + TextLen(Tail(t))

\* text[i:] starts with marker m (1-based atom index)
MatchAt(t, m, i) ==
  /\ i >= 1
  /\ i + Len(m) - 1 <= Len(t)
  /\ \A k \in 1..Len(m) : t[i + k - 1] = m[k]

\* the atom positions where marker m occurs in t
Occurrences(t, m) == {i \in 1..Len(t) : MatchAt(t, m, i)}

\* m in t
Contains(t, m) == Occurrences(t, m) # {}

Min(S) == CHOOSE x \in S : \A y \in S : x <= y
Max(S) == CHOOSE x \in S : \A y \in S : x >= y

\* t.find(m): the first position, 0 when absent (-1 in Python)
Find(t, m) == IF Contains(t, m) THEN Min(Occurrences(t, m)) ELSE 0

\* t.rfind(m): the last position, 0 when absent
RFind(t, m) == IF Contains(t, m) THEN Max(Occurrences(t, m)) ELSE 0

\* t[i:] as a text (1-based, i may be Len(t)+1)
From(t, i) == SubSeq(t, i, Len(t))

\* t.split(m)[0]
SplitFirst(t, m) ==
  IF Contains(t, m) THEN SubSeq(t, 1, Find(t, m) - 1) ELSE t

\* t.split(m)[1], defined when m occurs in t
SplitSecond(t, m) ==
  SplitFirst(From(t, Find(t, m) + Len(m)), m)

RECURSIVE LStrip(_)
LStrip(t) ==
  IF t # <<>> /\ IsSpace(Head(t)) THEN LStrip(Tail(t)) ELSE t

RECURSIVE RStrip(_)
RStrip(t) ==
  IF t # <<>> /\ IsSpace(t[Len(t)]) THEN RStrip(SubSeq(t, 1, Len(t) - 1)) ELSE t

\* t.strip()
Strip(t) == RStrip(LStrip(t))

RECURSIVE Replace(_, _, _)
\* t.replace(old, new) for a one-atom old: every occurrence is replaced
Replace(t, old, new) ==
  IF t = <<>> THEN <<>>
  ELSE IF Head(t) = old THEN new \o Replace(Tail(t), old, new)
  ELSE <<Head(t)>> \o Replace(Tail(t), old, new)

\* t.count(a) for a one-atom a
Count(t, a) == Cardinality({i \in 1..Len(t) : t[i] = a})

RECURSIVE Repeat(_, _)
Repeat(t, n) == IF n = 0 THEN <<>> ELSE t \o Repeat(t, n - 1)

----------------------------------------------------------------------------
(* JSON values and json.loads *)

\* the value of a key that the object does not have
Absent == "<absent>"

\* JSON string literals that occur as member values
StrVals ==
  {"\"video_platform\"", "\"landing_page\"", "\"youtube\"", "\"custom\"",
   "\"dark_theme\"", "\"modern\"", "\"grid\"", "\"hero_sections\"",
   "\"website\""}

\* JSON literals of lists whose elements are all strings
StrListVals ==
  {"[\"video_grid\", \"search_bar\"]",
   "[\"header\", \"hero\", \"features\", \"footer\"]",
   "[\"video_playback\"]", "[\"responsive_design\"]", "[]"}

\* JSON literals of lists with an element that is not a string
MixedListVals == {"[1]"}

\* JSON literals that are neither strings nor containers
PlainVals == {"null", "5"}

Keys ==
  {"app_type", "reference_site", "key_components", "visual_style",
   "layout_pattern", "primary_features"}

\* the atoms "key": value that make up the body of an object
MemberAtoms ==
  {"\"app_type\": \"video_platform\"", "\"app_type\": \"landing_page\"",
   "\"app_type\": null", "\"reference_site\": \"youtube\"",
   "\"reference_site\": \"custom\"", "\"reference_site\": []",
   "\"key_components\": [\"video_grid\", \"search_bar\"]",
   "\"key_components\": 5", "\"key_components\": [1]",
   "\"visual_style\": \"dark_theme\"", "\"layout_pattern\": \"grid\"",
   "\"primary_features\": [\"video_playback\"]"}

MemberKey(a) ==
  CASE a \in {"\"app_type\": \"video_platform\"",
              "\"app_type\": \"landing_page\"", "\"app_type\": null"}
         -> "app_type"
    [] a \in {"\"reference_site\": \"youtube\"",
              "\"reference_site\": \"custom\"", "\"reference_site\": []"}
         -> "reference_site"
    [] a \in {"\"key_components\": [\"video_grid\", \"search_bar\"]",
              "\"key_components\": 5", "\"key_components\": [1]"}
         -> "key_components"
    [] a = "\"visual_style\": \"dark_theme\"" -> "visual_style"
    [] a = "\"layout_pattern\": \"grid\"" -> "layout_pattern"
    [] a = "\"primary_features\": [\"video_playback\"]" -> "primary_features"

MemberVal(a) ==
  CASE a = "\"app_type\": \"video_platform\"" -> "\"video_platform\""
    [] a = "\"app_type\": \"landing_page\"" -> "\"landing_page\""
    [] a = "\"app_type\": null" -> "null"
    [] a = "\"reference_site\": \"youtube\"" -> "\"youtube\""
    [] a = "\"reference_site\": \"custom\"" -> "\"custom\""
    [] a = "\"reference_site\": []" -> "[]"
    [] a = "\"key_components\": [\"video_grid\", \"search_bar\"]"
         -> "[\"video_grid\", \"search_bar\"]"
    [] a = "\"key_components\": 5" -> "5"
    [] a = "\"key_components\": [1]" -> "[1]"
    [] a = "\"visual_style\": \"dark_theme\"" -> "\"dark_theme\""
    [] a = "\"layout_pattern\": \"grid\"" -> "\"grid\""
    [] a = "\"primary_features\": [\"video_playback\"]"
         -> "[\"video_playback\"]"

\* a Python value decoded from JSON: kind is dict, list, str, num or null;
\* the six fields are the values of the schema keys of a dict
Value(kind, f) ==
  [kind |-> kind,
   app_type |-> f["app_type"],
   reference_site |-> f["reference_site"],
   key_components |-> f["key_components"],
   visual_style |-> f["visual_style"],
   layout_pattern |-> f["layout_pattern"],
   primary_features |-> f["primary_features"]]

NoFields == [k \in Keys |-> Absent]

\* the empty dict {}
EmptyDict == Value("dict", NoFields)

\* body is  member (, member)*  or empty
IsMemberList(body) ==
  \/ body = <<>>
  \/ /\ Len(body) % 2 = 1
     /\ \A i \in 1..Len(body) :
          IF i % 2 = 1 THEN body[i] \in MemberAtoms ELSE body[i] = ","

\* the value an object body gives to key k: the last member wins
FieldOf(body, k) ==
  LET at == {i \in 1..Len(body) :
               body[i] \in MemberAtoms /\ MemberKey(body[i]) = k}
  IN  IF at = {} THEN Absent ELSE MemberVal(body[Max(at)])

\* json.loads(t): ok is FALSE when the decoder raises
json_loads(t) ==
  LET s == SelectSeq(t, LAMBDA a : ~IsSpace(a))
      body == SubSeq(s, 2, Len(s) - 1)
  IN  IF Len(s) = 1 /\ s[1] = "null"
        THEN [ok |-> TRUE, val |-> Value("null", NoFields)]
      ELSE IF Len(s) = 1 /\ s[1] = "5"
        THEN [ok |-> TRUE, val |-> Value("num", NoFields)]
      ELSE IF Len(s) = 1 /\ s[1] = "\"hello\""
        THEN [ok |-> TRUE, val |-> Value("str", NoFields)]
      ELSE IF s = <<"[", "]">>
        THEN [ok |-> TRUE, val |-> Value("list", NoFields)]
      ELSE IF Len(s) >= 2 /\ s[1] = "{" /\ s[Len(s)] = "}"
              /\ IsMemberList(body)
        THEN [ok |-> TRUE,
              val |-> Value("dict", [k \in Keys |-> FieldOf(body, k)])]
      ELSE [ok |-> FALSE, val |-> EmptyDict]

\* dict.get(key, default); defined for a dict
Get(d, key, default) ==
  LET v == CASE key = "app_type" -> d.app_type
             [] key = "reference_site" -> d.reference_site
             [] key = "key_components" -> d.key_components
             [] key = "visual_style" -> d.visual_style
             [] key = "layout_pattern" -> d.layout_pattern
             [] key = "primary_features" -> d.primary_features
  IN  IF v = Absent THEN default ELSE v

----------------------------------------------------------------------------
(* Intent Analyzer *)

JsonMarker == Fence \o <<"j", "s", "o", "n">>

\* the except branch of _analyze_user_intent
FallbackAnalysis ==
  Value("dict",
    [k \in Keys |->
       CASE k = "app_type" -> "\"landing_page\""
         [] k = "reference_site" -> "\"custom\""
         [] k = "key_components"
              -> "[\"header\", \"hero\", \"features\", \"footer\"]"
         [] k = "visual_style" -> "\"modern\""
         [] k = "layout_pattern" -> "\"hero_sections\""
         [] k = "primary_features" -> "[\"responsive_design\"]"])

\* the text handed to json.loads
IntentJsonStr(response) ==
  IF Contains(response, JsonMarker)
    THEN Strip(SplitFirst(SplitSecond(response, JsonMarker), Fence))
  ELSE IF Contains(response, Fence)
    THEN Strip(SplitFirst(SplitSecond(response, Fence), Fence))
  ELSE response

\* an analyzer whose except branch returns an empty descriptor
ParseIntentEmptyDefault(response) ==
  LET r == json_loads(IntentJsonStr(response))
  IN  IF r.ok THEN r.val ELSE EmptyDict

\* what _analyze_user_intent returns for a response of the exchange
ParseIntent(response) ==
  LET r == json_loads(IntentJsonStr(response))
  IN  IF r.ok THEN r.val ELSE FallbackAnalysis

----------------------------------------------------------------------------
(* Response Extractor *)

\* _extract_code_block(text, language): found is FALSE for None
extract_code_block(text, language) ==
  LET marker == Fence \o language
  IN  IF Contains(text, marker)
        THEN [found |-> TRUE,
              val |-> Strip(SplitFirst(SplitSecond(text, marker), Fence))]
        ELSE [found |-> FALSE, val |-> <<>>]

\* the Python expression  x or y  for an optional text x
OrElse(x, y) == IF x.found /\ x.val # <<>> THEN x.val ELSE y

\* _extract_html_direct(text)
extract_html_direct(text) ==
  LET start == IF Find(text, <<"<!DOCTYPE">>) # 0
                 THEN Find(text, <<"<!DOCTYPE">>)
                 ELSE Find(text, <<"<html">>)
      end == RFind(text, <<"</html>">>)
  IN  IF start # 0 /\ end # 0 THEN Strip(SubSeq(text, start, end)) ELSE <<>>

----------------------------------------------------------------------------
(* Fallback Library *)

\* _create_video_platform_fallback(prompt): the prompt is not used
VideoFallbackHtml ==
  <<"<!DOCTYPE", " ", "html>", "\n", "<html", " ", "lang=\"en\">", "\n",
    "<head>", "\n", "    ", "video fallback head elements", "\n", "    ",
    "<link", " ", "rel=\"stylesheet\" href=\"styles.css\">", "\n", "</head>",
    "\n", "<body>", "\n", "    ", "video fallback body elements", "\n",
    "    ", "<script", " ", "src=\"app.js\">", "</script>", "\n", "</body>",
    "\n", "</html>">>

create_video_platform_fallback ==
  [html |-> VideoFallbackHtml,
   css |-> <<"video fallback css">>,
   js |-> <<"video fallback js">>]

\* _create_generic_fallback(prompt)
create_generic_fallback == [html |-> <<>>, css |-> <<>>, js |-> <<>>]

\* _generate_fallback_frontend(prompt, analysis)
generate_fallback_frontend(analysis) ==
  IF Get(analysis, "app_type", "\"landing_page\"") = "\"video_platform\""
    THEN create_video_platform_fallback
    ELSE create_generic_fallback

----------------------------------------------------------------------------
(* Frontend Generator *)

MinHtmlLen == 500
MinCssLen == 300

\* the replacement texts of the two structural repairs
LinkRepair ==
  <<"    ", "<link", " ", "rel=\"stylesheet\" href=\"styles.css\">", "\n",
    "</head>">>
ScriptRepair ==
  <<"    ", "<script", " ", "src=\"app.js\">", "</script>", "\n", "</body>">>

\* _enhance_css_for_app_type(css, analysis)
VideoEnhancement ==
  <<"/* Video Platform Styles */", "\n", "video enhancement rules">>
GenericEnhancement == <<"generic enhancement rules">>

\* an enhancement that ignores the application type
enhance_css_generic(css, analysis) ==
  GenericEnhancement \o <<"\n", "\n">> \o css

enhance_css_for_app_type(css, analysis) ==
  (IF Get(analysis, "app_type", "\"landing_page\"") = "\"video_platform\""
     THEN VideoEnhancement ELSE GenericEnhancement) \o <<"\n", "\n">> \o css

\* the exception raised while _generate_contextual_frontend builds its
\* directive and prompt from the analysis, "" when none is raised
FrontendPromptError(analysis) ==
  IF analysis.kind # "dict" THEN "AttributeError"
  ELSE IF Get(analysis, "reference_site", "\"custom\"")
            \in StrListVals \cup MixedListVals THEN "TypeError"
  ELSE IF Get(analysis, "key_components", "[]") \in PlainVals
    THEN "TypeError"
  ELSE IF Get(analysis, "app_type", "\"website\"") \notin StrVals
    THEN "AttributeError"
  ELSE IF Get(analysis, "key_components", "[]") \in MixedListVals
    THEN "TypeError"
  ELSE ""

\* html as extracted from the response, before the repairs
ExtractHtml(response) ==
  LET html == OrElse(extract_code_block(response, <<"html">>), <<>>)
  IN  IF html = <<>> /\ Contains(response, <<"<!DOCTYPE">>)
        THEN extract_html_direct(response) ELSE html

ExtractCss(response) == OrElse(extract_code_block(response, <<"css">>), <<>>)

ExtractJs(response) ==
  OrElse(extract_code_block(response, <<"javascript">>),
         OrElse(extract_code_block(response, <<"j", "s">>), <<>>))

\* the link repair of line 305-306
EnsureLink(html) ==
  IF html # <<>> /\ ~Contains(html, <<"<link">>)
       /\ Contains(html, <<"</head>">>)
    THEN Replace(html, "</head>", LinkRepair) ELSE html

\* the script repair of line 308-309
EnsureScript(html) ==
  IF html # <<>> /\ ~Contains(html, <<"<script">>)
       /\ Contains(html, <<"</body>">>)
    THEN Replace(html, "</body>", ScriptRepair) ELSE html

\* html after both repairs
RepairHtml(html) == EnsureScript(EnsureLink(html))

\* a gate that is off by one
HtmlTooShortOffByOne(html) == TextLen(html) < MinHtmlLen - 1

\* the quality gate on the repaired html
HtmlTooShort(html) == TextLen(html) < MinHtmlLen

\* a gate that lets empty css pass
CssTooShortUnlessEmpty(css) == css # <<>> /\ TextLen(css) < MinCssLen

CssTooShort(css) == TextLen(css) < MinCssLen

\* what _generate_contextual_frontend returns for a response of the exchange
FrontendResult(response, analysis) ==
  LET html == RepairHtml(ExtractHtml(response))
      css == ExtractCss(response)
      js == ExtractJs(response)
  IN  IF HtmlTooShort(html) THEN generate_fallback_frontend(analysis)
      ELSE [html |-> html,
            css |-> IF CssTooShort(css)
                      THEN enhance_css_for_app_type(css, analysis) ELSE css,
            js |-> js]

----------------------------------------------------------------------------
(* Backend Generator *)

DefaultRequirements ==
  <<"fastapi==0.104.1\nuvicorn==0.24.0\nmotor==3.3.2\npydantic==2.5.0\npython-dotenv==1.0.0">>

\* a backend generator without the default dependency list
BackendResultNoDefault(response) ==
  [python |-> OrElse(extract_code_block(response, <<"python">>), <<>>),
   requirements |-> OrElse(extract_code_block(response, <<"txt">>), <<>>),
   models |-> <<>>]

\* what _generate_backend returns for a response of the exchange
BackendResult(response) ==
  [python |-> OrElse(extract_code_block(response, <<"python">>), <<>>),
   requirements |->
     OrElse(extract_code_block(response, <<"txt">>), DefaultRequirements),
   models |-> <<>>]

----------------------------------------------------------------------------
(* Project Assembler *)

\* a table whose default is the anthropic pair
get_model_config_anthropic_default(model) ==
  CASE model = "claude-sonnet-4" -> <<"anthropic", "claude-4-sonnet-20250514">>
    [] model = "gpt-5" -> <<"openai", "gpt-5">>
    [] model = "gpt-5-mini" -> <<"openai", "gpt-5-mini">>
    [] model = "gemini-2.5-pro" -> <<"gemini", "gemini-2.5-pro">>
    [] OTHER -> <<"anthropic", "claude-4-sonnet-20250514">>

\* _get_model_config(model)
get_model_config(model) ==
  CASE model = "claude-sonnet-4" -> <<"anthropic", "claude-4-sonnet-20250514">>
    [] model = "gpt-5" -> <<"openai", "gpt-5">>
    [] model = "gpt-5-mini" -> <<"openai", "gpt-5-mini">>
    [] model = "gemini-2.5-pro" -> <<"gemini", "gemini-2.5-pro">>
    [] OTHER -> <<"openai", "gpt-5">>

\* _generate_readme(prompt, ...)
generate_readme(prompt) ==
  <<"# Generated Project", "\n", "\n">> \o prompt \o
  <<"\n", "\n",
    "## Features\n- Modern UI\n- Responsive design\n- Working functionality">>

\* _generate_package_json(prompt)
generate_package_json ==
  <<"{\n  \"name\": \"generated-app\",\n  \"version\": \"1.0.0\"\n}">>

File(filename, content, file_type, description) ==
  [filename |-> filename, content |-> content, file_type |-> file_type,
   description |-> description]

\* files.append(...) guarded by the truth value of the content
AppendIf(files, content, file) ==
  IF content # <<>> THEN Append(files, file) ELSE files

\* a files list that puts the package manifest before the readme
CompileFilesManifestFirst(frontend, backend, readme, package_json) ==
  LET f1 == AppendIf(<<>>, frontend.html,
              File("index.html", frontend.html, "html",
                   "Main HTML file with structure and content"))
      f2 == AppendIf(f1, frontend.css,
              File("styles.css", frontend.css, "css",
                   "Stylesheet with modern, responsive design"))
      f3 == AppendIf(f2, frontend.js,
              File("app.js", frontend.js, "js",
                   "JavaScript for interactivity and API calls"))
      f4 == AppendIf(f3, backend.python,
              File("server.py", backend.python, "python",
                   "FastAPI backend with routes and business logic"))
      f5 == AppendIf(f4, backend.requirements,
              File("requirements.txt", backend.requirements, "txt",
                   "Python dependencies"))
      f6 == Append(f5, File("package.json", package_json, "json",
                            "Frontend dependencies and scripts"))
  IN  AppendIf(f6, readme,
               File("README.md", readme, "md", "Project documentation"))

\* the files list compiled at lines 75-131
CompileFiles(frontend, backend, readme, package_json) ==
  LET f1 == AppendIf(<<>>, frontend.html,
              File("index.html", frontend.html, "html",
                   "Main HTML file with structure and content"))
      f2 == AppendIf(f1, frontend.css,
              File("styles.css", frontend.css, "css",
                   "Stylesheet with modern, responsive design"))
      f3 == AppendIf(f2, frontend.js,
              File("app.js", frontend.js, "js",
                   "JavaScript for interactivity and API calls"))
      f4 == AppendIf(f3, backend.python,
              File("server.py", backend.python, "python",
                   "FastAPI backend with routes and business logic"))
      f5 == AppendIf(f4, backend.requirements,
              File("requirements.txt", backend.requirements, "txt",
                   "Python dependencies"))
      f6 == AppendIf(f5, readme,
              File("README.md", readme, "md", "Project documentation"))
  IN  Append(f6, File("package.json", package_json, "json",
                      "Frontend dependencies and scripts"))

\* the dictionary returned at lines 135-145
ProjectResult(prompt, analysis, frontend, backend) ==
  [html_content |-> frontend.html,
   css_content |-> frontend.css,
   js_content |-> frontend.js,
   python_backend |-> backend.python,
   requirements_txt |-> backend.requirements,
   package_json |-> generate_package_json,
   readme |-> generate_readme(prompt),
   structure |-> analysis,
   files |-> CompileFiles(frontend, backend, generate_readme(prompt),
                          generate_package_json)]

\* a fallback project whose readme does not embed the request
generate_fallback_project_fixed_readme(prompt) ==
  [html_content |-> create_video_platform_fallback.html,
   css_content |-> create_video_platform_fallback.css,
   js_content |-> create_video_platform_fallback.js,
   python_backend |-> <<>>,
   requirements_txt |-> <<>>,
   package_json |-> generate_package_json,
   readme |-> <<"# Generated Project">>,
   files |-> <<>>,
   structure |-> EmptyDict]

\* a fallback project that lists the package manifest in files
generate_fallback_project_with_manifest(prompt) ==
  [html_content |-> create_video_platform_fallback.html,
   css_content |-> create_video_platform_fallback.css,
   js_content |-> create_video_platform_fallback.js,
   python_backend |-> <<>>,
   requirements_txt |-> <<>>,
   package_json |-> generate_package_json,
   readme |-> <<"# ">> \o prompt,
   files |-> <<[filename |-> "package.json", content |-> generate_package_json,
                file_type |-> "json",
                description |-> "Frontend dependencies and scripts"]>>,
   structure |-> EmptyDict]

\* _generate_fallback_project(prompt)
generate_fallback_project(prompt) ==
  [html_content |-> create_video_platform_fallback.html,
   css_content |-> create_video_platform_fallback.css,
   js_content |-> create_video_platform_fallback.js,
   python_backend |-> <<>>,
   requirements_txt |-> <<>>,
   package_json |-> generate_package_json,
   readme |-> <<"# ">> \o prompt,
   files |-> <<>>,
   structure |-> EmptyDict]

\* the exceptions the pipeline can raise; all derive from Exception
Exceptions == {"GatewayError", "AttributeError", "TypeError"}

\* a handler that catches the gateway errors only
CaughtGatewayOnly(e) == e = "GatewayError"

\* whether the handler  except Exception  of line 147 catches e
CaughtAtTopLevel(e) == e \in Exceptions

----------------------------------------------------------------------------
(* Inputs: requests and the responses of the model exchanges *)

Prompts ==
  {<<>>, <<"build me a simple landing page">>, <<"make a youtube clone">>}

ModelIds ==
  {"gpt-5", "claude-sonnet-4", "gpt-5-mini", "gemini-2.5-pro", "llama-3"}

\* values of  project_ + os.urandom(8).hex()
SessionIds == {"project_0000000000000000", "project_ffffffffffffffff"}

\* the calls explored: every prompt, every model id and every session id
\* occurs, one of them varying at a time
CallInputs ==
  {c \in Prompts \X ModelIds \X SessionIds :
     Cardinality({i \in 1..3 :
        c[i] # <<<<>>, "gpt-5", "project_0000000000000000">>[i]}) <= 1}

Obj(members) == <<"{">> \o members \o <<"}">>

VideoDescriptor ==
  Obj(<<"\n", "\"app_type\": \"video_platform\"", ",", "\n",
        "\"reference_site\": \"youtube\"", ",", "\n",
        "\"key_components\": [\"video_grid\", \"search_bar\"]", ",", "\n",
        "\"visual_style\": \"dark_theme\"", ",", "\n",
        "\"layout_pattern\": \"grid\"", ",", "\n",
        "\"primary_features\": [\"video_playback\"]", "\n">>)

LandingDescriptor ==
  Obj(<<"\"app_type\": \"landing_page\"", ",",
        "\"reference_site\": \"custom\"", ",",
        "\"key_components\": [\"video_grid\", \"search_bar\"]", ",",
        "\"visual_style\": \"dark_theme\"", ",",
        "\"layout_pattern\": \"grid\"", ",",
        "\"primary_features\": [\"video_playback\"]">>)

\* JSON objects that lack schema keys
PartialObjects ==
  {Obj(<<"\"app_type\": \"video_platform\"">>),
   Obj(<<"\"reference_site\": \"youtube\"", ",",
         "\"key_components\": [\"video_grid\", \"search_bar\"]">>),
   Obj(<<>>)}

\* JSON objects with a schema key of the wrong type
MistypedObjects ==
  {Obj(<<"\"app_type\": null">>),
   Obj(<<"\"app_type\": \"video_platform\"", ",", "\"key_components\": 5">>),
   Obj(<<"\"app_type\": \"video_platform\"", ",", "\"reference_site\": []">>),
   Obj(<<"\"app_type\": \"landing_page\"", ",", "\"key_components\": [1]">>)}

\* valid JSON that is not an object
NonObjects == {<<"null">>, <<"5">>, <<"\"hello\"">>, <<"[", "]">>}

\* texts that are not JSON
Malformed ==
  {<<"I cannot help with that">>,
   <<"{", "\"app_type\": \"video_platform\"">>,
   <<"{", "\"app_type\": \"video_platform\"", ",", "}">>,
   <<>>}

IntentPayloads ==
  {VideoDescriptor, LandingDescriptor} \cup PartialObjects
    \cup MistypedObjects \cup NonObjects \cup Malformed

\* a payload as the model may present it: bare, in a json fence, in a
\* fence without label, in a fence with another label
Presentations(p) ==
  {p,
   <<"Here is the analysis:", "\n">> \o Fence \o <<"j", "s", "o", "n", "\n">>
     \o p \o <<"\n">> \o Fence \o <<"\n", "Done.">>,
   Fence \o <<"\n">> \o p \o <<"\n">> \o Fence,
   Fence \o <<"txt", "\n">> \o p \o <<"\n">> \o Fence}

IntentResponses == UNION {Presentations(p) : p \in IntentPayloads}

LinkTag == <<"<link", " ", "rel=\"stylesheet\" href=\"styles.css\">">>
ScriptTag == <<"<script", " ", "src=\"app.js\">", "</script>">>

\* an HTML document: with or without doctype, link tag and script tag,
\* nh closing head tags, nb closing body tags
Doc(dt, ln, sc, nh, nb, body) ==
  (IF dt THEN <<"<!DOCTYPE", " ", "html>", "\n">> ELSE <<>>)
    \o <<"<html", ">", "\n", "<head>">>
    \o (IF ln THEN LinkTag ELSE <<>>)
    \o Repeat(<<"</head>">>, nh)
    \o <<"<body>">> \o body
    \o (IF sc THEN ScriptTag ELSE <<>>)
    \o Repeat(<<"</body>">>, nb)
    \o <<"</html>">>

ContentAtoms == {"content*1", "content*388", "content*420"}

\* bodies of at most MaxBody content atoms
Bodies ==
  UNION {[1..n -> ContentAtoms] : n \in 0..MaxBody}

LongBody == <<"content*420", "content*388">>

\* documents varying in their tags over a long body, and documents with
\* one closing tag each varying in their body
HtmlDocs ==
  {Doc(dt, ln, sc, nh, nb, LongBody) :
     dt \in BOOLEAN, ln \in BOOLEAN, sc \in BOOLEAN,
     nh \in 0..MaxClose, nb \in 0..MaxClose}
  \cup
  {Doc(dt, ln, sc, 1, 1, b) :
     dt \in BOOLEAN, ln \in BOOLEAN, sc \in BOOLEAN, b \in Bodies}

Block(label, payload) ==
  Fence \o label \o <<"\n">> \o payload \o <<"\n">> \o Fence \o <<"\n">>

ShortCss == <<"body{margin:0}">>
LongCss == <<"css*300">>
SomeJs == <<"init();">>

CssBlocks ==
  {<<>>, Block(<<"css">>, <<>>), Block(<<"css">>, ShortCss),
   Block(<<"css">>, LongCss)}

JsBlocks ==
  {<<>>, Block(<<"javascript">>, SomeJs), Block(<<"j", "s">>, SomeJs),
   Block(<<"javascript">>, <<>>) \o Block(<<"j", "s">>, SomeJs)}

FrontendResponses ==
  \* every document in an html fence, with short css and a script
  {Block(<<"html">>, d) \o Block(<<"css">>, ShortCss)
     \o Block(<<"javascript">>, SomeJs) : d \in HtmlDocs}
  \cup
  \* documents without any fence
  {<<"Here is your page:", "\n">> \o d \o <<"\n", "Enjoy!">> :
     d \in {Doc(dt, ln, sc, 1, 1, LongBody) :
              dt \in BOOLEAN, ln \in BOOLEAN, sc \in BOOLEAN}}
  \cup
  \* one good document with every css and js block
  {Block(<<"html">>, Doc(TRUE, TRUE, TRUE, 1, 1, LongBody)) \o c \o j :
     c \in CssBlocks, j \in JsBlocks}
  \cup
  \* no document at all
  {<<>>, <<"I cannot help with that">>,
   Block(<<"j", "s", "o", "n">>, Obj(<<>>))}

BackendResponses ==
  {p \o t :
     p \in {<<>>, Block(<<"python">>, <<"app = FastAPI()">>)},
     t \in {<<>>, Block(<<"txt">>, <<"fastapi">>), Block(<<"txt">>, <<>>)}}

----------------------------------------------------------------------------
(* State *)

VARIABLES
  pc,               \* where generate_complete_project is: idle, suspended in
                    \* the exchange of a role, done (returned) or raised
  prompt,           \* the request text
  selector,         \* (provider, model_name) of line 54
  session_id,       \* the base conversation handle of line 55
  exchanges,        \* the conversation handles of the exchanges issued
  response,         \* the response of the last completed exchange
  analysis,         \* the value returned by _analyze_user_intent
  frontend_result,  \* the value returned by _generate_contextual_frontend
  backend_result,   \* the value returned by _generate_backend
  error,            \* the exception that left the try block, and its origin
  result,           \* the value returned to the caller
  model,            \* the model argument of the call
  inflight,         \* the handles of the exchanges that are suspended
  frontend_response,\* the response of the frontend exchange, kept
  reply,            \* the value returned by generate_response
  xpc,              \* extractor harness: idle or extracted
  text,             \* extractor harness: the text argument
  label,            \* extractor harness: the language argument
  extracted,        \* extractor harness: the value returned
  upload,           \* the state of a call of S3Service.upload_file
  calls,            \* concurrent generations: the state of each call
  frames            \* concurrent generations: the locals of each call

\* the state of a call of generate_complete_project or generate_response
call_vars ==
  <<pc, prompt, selector, session_id, exchanges, response, analysis,
    frontend_result, backend_result, error, result, model, inflight,
    frontend_response, reply>>

\* the state of a call of an extractor function
extractor_vars == <<xpc, text, label, extracted>>

\* the state of a call of S3Service.upload_file
upload_vars == <<upload>>

\* the state of the generations that run concurrently on one AIService
concurrent_vars == <<calls, frames>>

vars == <<call_vars, extractor_vars, upload_vars, concurrent_vars>>

\* a local variable that is not bound yet
Unbound == Value("unbound", NoFields)
NoArtifacts == [html |-> <<>>, css |-> <<>>, js |-> <<>>]
NoBackend == [python |-> <<>>, requirements |-> <<>>, models |-> <<>>]
NoError == [type |-> "", at |-> ""]
NoResult ==
  [html_content |-> <<>>, css_content |-> <<>>, js_content |-> <<>>,
   python_backend |-> <<>>, requirements_txt |-> <<>>, package_json |-> <<>>,
   readme |-> <<>>, files |-> <<>>, structure |-> Unbound]

\* no upload has been started
NoUpload ==
  [pc |-> "idle", filename |-> <<>>, folder |-> <<>>, key |-> <<>>,
   pending |-> "", url |-> <<>>, error |-> "", failed_at |-> "",
   seek |-> ""]

\* the generations that run concurrently
CallIds == 1..MaxCalls

\* a generation that has not been started, and its locals
NoCall ==
  [pc |-> "idle", prompt |-> <<>>, session_id |-> "", exchanges |-> <<>>,
   responses |-> <<>>, failed |-> FALSE, result |-> NoResult]
NoFrame ==
  [analysis |-> Unbound, frontend_result |-> NoArtifacts,
   backend_result |-> NoBackend]

NoReply == [content |-> <<>>, website_data |-> "", image_urls |-> ""]
NotExtracted == [found |-> FALSE, val |-> <<>>]

\* a handle that leaves the role suffix out
HandleWithoutSuffix(sid, suffix) == <<sid, "">>

\* the conversation handle of a role: session_id + suffix
Handle(sid, suffix) == <<sid, suffix>>

\* a role that starts its exchange before the previous role has finished
StartExchangeEager(sid, suffix) ==
  IF suffix = "_frontend"
    THEN <<Handle(sid, "_frontend"), Handle(sid, "_backend")>>
    ELSE <<Handle(sid, suffix)>>

\* a role that sends its message a second time
StartExchangeWithRetry(sid, suffix) ==
  <<Handle(sid, suffix), Handle(sid, suffix)>>

\* the exchanges a role puts in flight when it awaits send_message
StartExchange(sid, suffix) == <<Handle(sid, suffix)>>

\* the elements of a sequence
Range(q) == {q[i] : i \in 1..Len(q)}

Init ==
  /\ pc = "idle"
  /\ prompt = <<>>
  /\ selector = <<"", "">>
  /\ session_id = ""
  /\ exchanges = <<>>
  /\ response = <<>>
  /\ analysis = Unbound
  /\ frontend_result = NoArtifacts
  /\ backend_result = NoBackend
  /\ error = NoError
  /\ result = NoResult
  /\ model = ""
  /\ inflight = {}
  /\ frontend_response = <<>>
  /\ reply = NoReply
  /\ xpc = "idle"
  /\ text = <<>>
  /\ label = <<>>
  /\ extracted = NotExtracted
  /\ upload = NoUpload
  /\ calls = [i \in CallIds |-> NoCall]
  /\ frames = [i \in CallIds |-> NoFrame]

\* an exception of type e raised at origin at leaves the try block of
\* generate_complete_project (lines 147-149)
Except(e, at) ==
  /\ error' = [type |-> e, at |-> at]
  /\ IF CaughtAtTopLevel(e)
       THEN /\ pc' = "done"
            /\ result' = generate_fallback_project(prompt)
       ELSE /\ pc' = "raised"
            /\ UNCHANGED result

\* generate_complete_project is called and runs up to the exchange of
\* _analyze_user_intent
Call(p, m, sid) ==
  /\ pc = "idle"
  /\ xpc = "idle"
  /\ prompt' = p
  /\ model' = m
  /\ selector' = get_model_config(m)
  /\ session_id' = sid
  /\ exchanges' = StartExchange(sid, "_analyzer")
  /\ inflight' = Range(StartExchange(sid, "_analyzer"))
  /\ pc' = "intent"
  /\ UNCHANGED <<response, analysis, frontend_result, backend_result, error,
                 result, frontend_response, reply>>
  /\ UNCHANGED <<extractor_vars, upload_vars, concurrent_vars>>

\* the intent exchange returns r: the analysis is parsed and
\* _generate_contextual_frontend runs up to its exchange
IntentRespond(r) ==
  /\ pc = "intent"
  /\ response' = r
  /\ analysis' = ParseIntent(r)
  /\ IF FrontendPromptError(ParseIntent(r)) # ""
       THEN /\ Except(FrontendPromptError(ParseIntent(r)), "frontend prompt")
            /\ inflight' = inflight \ {Handle(session_id, "_analyzer")}
            /\ UNCHANGED exchanges
       ELSE /\ exchanges' = exchanges \o StartExchange(session_id, "_frontend")
            /\ inflight' = (inflight \ {Handle(session_id, "_analyzer")})
                              \cup Range(StartExchange(session_id, "_frontend"))
            /\ pc' = "frontend"
            /\ UNCHANGED <<error, result>>
  /\ UNCHANGED <<prompt, selector, session_id, frontend_result,
                 backend_result, model, frontend_response, reply>>
  /\ UNCHANGED <<extractor_vars, upload_vars, concurrent_vars>>

\* the intent exchange raises
IntentFail ==
  /\ pc = "intent"
  /\ Except("GatewayError", "analyzer exchange")
  /\ inflight' = inflight \ {Handle(session_id, "_analyzer")}
  /\ UNCHANGED <<prompt, selector, session_id, exchanges, response, analysis,
                 frontend_result, backend_result, model, frontend_response,
                 reply>>
  /\ UNCHANGED <<extractor_vars, upload_vars, concurrent_vars>>

\* the frontend exchange returns r: the artifacts are extracted, repaired
\* and validated, and _generate_backend runs up to its exchange
FrontendRespond(r) ==
  /\ pc = "frontend"
  /\ response' = r
  /\ frontend_result' = FrontendResult(r, analysis)
  /\ frontend_response' = r
  /\ exchanges' = exchanges \o StartExchange(session_id, "_backend")
  /\ inflight' = (inflight \ {Handle(session_id, "_frontend")})
                    \cup Range(StartExchange(session_id, "_backend"))
  /\ pc' = "backend"
  /\ UNCHANGED <<prompt, selector, session_id, analysis, backend_result,
                 error, result, model, reply>>
  /\ UNCHANGED <<extractor_vars, upload_vars, concurrent_vars>>

\* the frontend exchange raises
FrontendFail ==
  /\ pc = "frontend"
  /\ Except("GatewayError", "frontend exchange")
  /\ inflight' = inflight \ {Handle(session_id, "_frontend")}
  /\ UNCHANGED <<prompt, selector, session_id, exchanges, response, analysis,
                 frontend_result, backend_result, model, frontend_response,
                 reply>>
  /\ UNCHANGED <<extractor_vars, upload_vars, concurrent_vars>>

\* the backend exchange returns r: the backend artifacts are extracted,
\* the files are compiled and the project is returned
BackendRespond(r) ==
  /\ pc = "backend"
  /\ response' = r
  /\ backend_result' = BackendResult(r)
  /\ result' = ProjectResult(prompt, analysis, frontend_result,
                             BackendResult(r))
  /\ inflight' = inflight \ {Handle(session_id, "_backend")}
  /\ pc' = "done"
  /\ UNCHANGED <<prompt, selector, session_id, exchanges, analysis,
                 frontend_result, error, model, frontend_response, reply>>
  /\ UNCHANGED <<extractor_vars, upload_vars, concurrent_vars>>

\* the backend exchange raises
BackendFail ==
  /\ pc = "backend"
  /\ Except("GatewayError", "backend exchange")
  /\ inflight' = inflight \ {Handle(session_id, "_backend")}
  /\ UNCHANGED <<prompt, selector, session_id, exchanges, response, analysis,
                 frontend_result, backend_result, model, frontend_response,
                 reply>>
  /\ UNCHANGED <<extractor_vars, upload_vars, concurrent_vars>>

----------------------------------------------------------------------------
(* generate_response: one exchange, answered by a reply dictionary *)

\* str(e) of the exceptions; the description may be empty
ErrorText(e) ==
  CASE e = "GatewayError" -> <<"model gateway unavailable">>
    [] e = "AttributeError" -> <<"NoneType object has no attribute text">>
    [] OTHER -> <<>>

\* the dictionary returned at lines 39-43
ResponseReply(r) ==
  [content |-> r, website_data |-> "None", image_urls |-> "None"]

\* an apology that leaves the error description out
ErrorReplyWithoutDescription(e) ==
  [content |-> <<"I apologize, but I encountered an error. Please try again.">>,
   website_data |-> "None", image_urls |-> "None"]

\* the dictionary returned at lines 46-50
ErrorReply(e) ==
  [content |-> <<"I apologize, but I encountered an error: ">>
                 \o ErrorText(e) \o <<". Please try again.">>,
   website_data |-> "None", image_urls |-> "None"]

\* whether the handler  except Exception  of line 44 catches e
CaughtInResponse(e) == e \in Exceptions

\* responses of the chat exchange
ChatResponses ==
  {<<>>, <<"Sure, here is a plan.">>, <<" ", "Hello", "\n">>,
   Block(<<"html">>, Doc(TRUE, TRUE, TRUE, 1, 1, <<>>))}

\* generate_response is called and suspends in send_message
CallResponse(p, m, sid) ==
  /\ pc = "idle"
  /\ xpc = "idle"
  /\ prompt' = p
  /\ model' = m
  /\ selector' = get_model_config(m)
  /\ session_id' = sid
  /\ exchanges' = StartExchange(sid, "")
  /\ inflight' = Range(StartExchange(sid, ""))
  /\ pc' = "chat"
  /\ UNCHANGED <<response, analysis, frontend_result, backend_result, error,
                 result, frontend_response, reply>>
  /\ UNCHANGED <<extractor_vars, upload_vars, concurrent_vars>>

\* the chat exchange returns r
ChatRespond(r) ==
  /\ pc = "chat"
  /\ response' = r
  /\ reply' = ResponseReply(r)
  /\ inflight' = inflight \ {Handle(session_id, "")}
  /\ pc' = "replied"
  /\ UNCHANGED <<prompt, selector, session_id, exchanges, analysis,
                 frontend_result, backend_result, error, result, model,
                 frontend_response>>
  /\ UNCHANGED <<extractor_vars, upload_vars, concurrent_vars>>

\* the chat exchange raises e
ChatFail(e) ==
  /\ pc = "chat"
  /\ error' = [type |-> e, at |-> "chat exchange"]
  /\ inflight' = inflight \ {Handle(session_id, "")}
  /\ IF CaughtInResponse(e)
       THEN reply' = ErrorReply(e) /\ pc' = "replied"
       ELSE pc' = "raised" /\ UNCHANGED reply
  /\ UNCHANGED <<prompt, selector, session_id, exchanges, response, analysis,
                 frontend_result, backend_result, result, model,
                 frontend_response>>
  /\ UNCHANGED <<extractor_vars, upload_vars, concurrent_vars>>

----------------------------------------------------------------------------
(* The extractor applied to a text and a label *)

Labels ==
  {<<>>, <<"html">>, <<"css">>, <<"j", "s">>, <<"j", "s", "o", "n">>,
   <<"javascript">>, <<"python">>, <<"txt">>}

Whitespace == {<<>>, <<"\n">>, <<" ", "\n">>}

\* payloads without surrounding whitespace; none contains the fence
Cores ==
  {<<>>, <<"init();">>, <<"a", "\n", " ", "b">>,
   <<"[backquote]", "x", "[backquote]", " ", "y">>,
   <<"const s = ", "[backquote]", "hi", "[backquote]">>}

\* an opening fence labelled l, the payload, a closing fence
Fenced(l, payload) == Fence \o l \o payload \o Fence

RoundTripInputs ==
  {<<Fenced(l, w1 \o c \o w2), l>> :
     l \in Labels, w1 \in Whitespace, c \in Cores, w2 \in Whitespace}

\* the fenced blocks of a text: a label and an ordinal that tells blocks
\* of one label apart
BlockLabels == {<<"html">>, <<"css">>, <<"j", "s">>, <<"j", "s", "o", "n">>}
BlockIds == [label : BlockLabels, n : 1..2]
BlockPayload(b) == b.label \o <<" payload ", <<"one", "two">>[b.n]>>
BlockSeqs == UNION {[1..k -> BlockIds] : k \in 0..MaxBlocks}

RECURSIVE Blocks(_)
Blocks(bs) ==
  IF bs = <<>> THEN <<>>
  ELSE Block(Head(bs).label, BlockPayload(Head(bs))) \o Blocks(Tail(bs))

\* a response made of an introduction and fenced blocks
BlockText(bs) == <<"Here you go:", "\n">> \o Blocks(bs)

BlockInputs ==
  {<<BlockText(bs), l>> : bs \in BlockSeqs, l \in Labels \ {<<>>}}

ExtractorInputs == RoundTripInputs \cup BlockInputs

\* _extract_code_block(t, l) is called and returns
ExtractCodeBlock(t, l) ==
  /\ pc = "idle"
  /\ xpc = "idle"
  /\ text' = t
  /\ label' = l
  /\ extracted' = extract_code_block(t, l)
  /\ xpc' = "extracted"
  /\ UNCHANGED <<call_vars, upload_vars, concurrent_vars>>

\* complete documents, with and without doctype, each with one closing
\* html tag at its end
Documents ==
  {Doc(dt, ln, TRUE, 1, 1, <<"content*1">>) : dt \in BOOLEAN, ln \in BOOLEAN}

\* what a response says before its document; none holds <!DOCTYPE
Prefixes ==
  {<<>>, <<"Here is your page:", "\n">>,
   <<"Close it with ", "</html>", ".", "\n">>}

\* what a response says after its document
Suffixes ==
  {<<>>, <<"\n", "Enjoy!">>,
   <<"\n", "Do not forget the closing ", "</html>", " tag.">>,
   <<"\n", "A second page:", "\n">>
     \o Doc(TRUE, FALSE, FALSE, 1, 1, <<"content*1">>)}

\* responses without a document start marker, and a document that is
\* never closed
NoDocuments ==
  {<<>>, <<"I cannot help with that">>, <<"<body>", "content*1", "</body>">>,
   <<"content*1", "</html>">>,
   <<"<!DOCTYPE", " ", "html>", "\n", "<html", ">", "<body>", "content*1">>,
   <<"</html>", "\n", "<html", ">", "<body>", "content*1">>}

DocumentInputs ==
  {pre \o d \o post : pre \in Prefixes, d \in Documents, post \in Suffixes}
    \cup NoDocuments

\* _extract_html_direct(t) is called and returns; nothing is the empty text
ExtractHtmlDirect(t) ==
  /\ pc = "idle"
  /\ xpc = "idle"
  /\ text' = t
  /\ extracted' = [found |-> extract_html_direct(t) # <<>>,
                   val |-> extract_html_direct(t)]
  /\ xpc' = "document"
  /\ UNCHANGED label
  /\ UNCHANGED <<call_vars, upload_vars, concurrent_vars>>

NextExtractor ==
  \/ \E i \in ExtractorInputs : ExtractCodeBlock(i[1], i[2])
  \/ \E t \in DocumentInputs : ExtractHtmlDirect(t)

SpecExtractor == Init /\ [][NextExtractor]_vars

----------------------------------------------------------------------------
(* S3Service.upload_file *)

\* filenames of uploaded files; the empty one is no filename
UploadNames ==
  {<<>>, <<"photo", ".", "png">>, <<"archive", ".", "tar", ".", "gz">>,
   <<"README">>, <<"notes", ".">>}

Folders == {<<>>, <<"uploads">>, <<"/", "tmp">>, <<"a", "/", "b">>}

\* values of uuid.uuid4()
Uuids == {"uuid-1", "uuid-2"}

\* file.filename.split(.)[-1] if there is a dot in the filename, else empty
Extension(filename) ==
  LET dots == {i \in 1..Len(filename) : filename[i] = "."}
  IN  IF dots = {} THEN <<>>
      ELSE SubSeq(filename, Max(dots) + 1, Len(filename))

\* line 30
UniqueFilename(u, filename) ==
  IF Extension(filename) # <<>> THEN <<u, ".">> \o Extension(filename)
  ELSE <<u>>

\* t.lstrip(/)
RECURSIVE LStripSlash(_)
LStripSlash(t) ==
  IF t # <<>> /\ Head(t) = "/" THEN LStripSlash(Tail(t)) ELSE t

\* line 33
S3Key(folder, unique) == LStripSlash(folder \o <<"/">> \o unique)

BucketName == "webgen-uploads"

\* line 48
FileUrl(key) == <<"https://", BucketName, ".s3.amazonaws.com/">> \o key

\* line 56
PlaceholderUrl(key) == <<"https://placeholder-storage.com/">> \o key

\* what file.read, put_object and file.seek can raise; of the botocore
\* errors only ClientError is a ClientError
ReadErrors == {"OSError", "ValueError"}
PutErrors == {"ClientError", "EndpointConnectionError", "NoCredentialsError"}
SeekErrors == {"ValueError"}

\* whether the handler  except ClientError  of line 53 catches e
CaughtInUpload(e) == e = "ClientError"

\* upload_file is called: lines 25-33, then suspended in file.read
UploadFile(filename, folder, u) ==
  /\ upload.pc = "idle"
  /\ upload' =
       IF filename = <<>>
         THEN [NoUpload EXCEPT !.pc = "raised", !.folder = folder,
                               !.error = "HTTPException"]
         ELSE [NoUpload EXCEPT !.pc = "reading", !.filename = filename,
                               !.folder = folder,
                               !.key = S3Key(folder,
                                             UniqueFilename(u, filename))]
  /\ UNCHANGED <<call_vars, extractor_vars, concurrent_vars>>

\* an exception e raised inside the try block at step at
UploadExcept(e, at) ==
  upload' =
    IF CaughtInUpload(e)
      THEN [upload EXCEPT !.pc = "finally", !.pending = "return",
                          !.url = PlaceholderUrl(upload.key),
                          !.error = e, !.failed_at = at]
      ELSE [upload EXCEPT !.pc = "finally", !.pending = "raise",
                          !.error = e, !.failed_at = at]

ReadOk ==
  /\ upload.pc = "reading"
  /\ upload' = [upload EXCEPT !.pc = "putting"]
  /\ UNCHANGED <<call_vars, extractor_vars, concurrent_vars>>

ReadFail(e) ==
  /\ upload.pc = "reading"
  /\ UploadExcept(e, "read")
  /\ UNCHANGED <<call_vars, extractor_vars, concurrent_vars>>

PutOk ==
  /\ upload.pc = "putting"
  /\ upload' = [upload EXCEPT !.pc = "finally", !.pending = "return",
                              !.url = FileUrl(upload.key)]
  /\ UNCHANGED <<call_vars, extractor_vars, concurrent_vars>>

PutFail(e) ==
  /\ upload.pc = "putting"
  /\ UploadExcept(e, "put")
  /\ UNCHANGED <<call_vars, extractor_vars, concurrent_vars>>

\* the finally block: file.seek(0) returns, and the pending return or
\* raise takes place
SeekOk ==
  /\ upload.pc = "finally"
  /\ upload' = [upload EXCEPT
       !.pc = IF upload.pending = "return" THEN "returned" ELSE "raised",
       !.seek = "ok"]
  /\ UNCHANGED <<call_vars, extractor_vars, concurrent_vars>>

\* file.seek(0) raises: its exception replaces the pending outcome
SeekFail(e) ==
  /\ upload.pc = "finally"
  /\ upload' = [upload EXCEPT !.pc = "raised", !.pending = "raise",
                              !.url = <<>>, !.error = e, !.seek = "failed"]
  /\ UNCHANGED <<call_vars, extractor_vars, concurrent_vars>>

NextUpload ==
  \/ \E f \in UploadNames : \E d \in Folders : \E u \in Uuids :
       UploadFile(f, d, u)
  \/ ReadOk
  \/ \E e \in ReadErrors : ReadFail(e)
  \/ PutOk
  \/ \E e \in PutErrors : PutFail(e)
  \/ SeekOk
  \/ \E e \in SeekErrors : SeekFail(e)

SpecUpload == Init /\ [][NextUpload]_vars

----------------------------------------------------------------------------
(* Several generate_complete_project calls on one AIService *)

\* all calls keep their locals in one place, as attributes of the service
FrameShared(i) == 1

\* where call i keeps analysis, frontend_result and backend_result: they
\* are local variables of the coroutine, one frame for each call
FrameOf(i) == i

ConcurrentPrompts == {<<"make a youtube clone">>}
ConcurrentIntents == {VideoDescriptor, LandingDescriptor}
ConcurrentFrontends ==
  {Block(<<"html">>, Doc(TRUE, TRUE, TRUE, 1, 1, <<>>))
     \o Block(<<"css">>, ShortCss) \o Block(<<"javascript">>, SomeJs),
   Block(<<"html">>, Doc(TRUE, TRUE, TRUE, 1, 1, LongBody))
     \o Block(<<"css">>, ShortCss) \o Block(<<"javascript">>, SomeJs)}
ConcurrentBackends == {Block(<<"python">>, <<"app = FastAPI()">>)}

\* call i starts and suspends in the analyzer exchange
GenStart(i, p, sid) ==
  /\ calls[i].pc = "idle"
  /\ calls' = [calls EXCEPT ![i] =
       [NoCall EXCEPT !.pc = "intent", !.prompt = p, !.session_id = sid,
                      !.exchanges = <<Handle(sid, "_analyzer")>>]]
  /\ UNCHANGED frames
  /\ UNCHANGED <<call_vars, extractor_vars, upload_vars>>

\* the handler of line 147 for call i
GenFallback(i) ==
  [calls[i] EXCEPT !.pc = "done", !.failed = TRUE,
                   !.result = generate_fallback_project(calls[i].prompt)]

\* the analyzer exchange of call i returns r; the frontend generator
\* builds its prompt and suspends in its exchange
GenIntent(i, r) ==
  /\ calls[i].pc = "intent"
  /\ frames' = [frames EXCEPT ![FrameOf(i)].analysis = ParseIntent(r)]
  /\ calls' = [calls EXCEPT ![i] =
       IF FrontendPromptError(ParseIntent(r)) # ""
         THEN [GenFallback(i) EXCEPT !.responses = <<r>>]
         ELSE [calls[i] EXCEPT
                 !.pc = "frontend", !.responses = <<r>>,
                 !.exchanges = Append(calls[i].exchanges,
                                 Handle(calls[i].session_id, "_frontend"))]]
  /\ UNCHANGED <<call_vars, extractor_vars, upload_vars>>

\* the frontend exchange of call i returns r; the backend generator
\* suspends in its exchange
GenFrontend(i, r) ==
  /\ calls[i].pc = "frontend"
  /\ frames' = [frames EXCEPT ![FrameOf(i)].frontend_result =
                  FrontendResult(r, frames[FrameOf(i)].analysis)]
  /\ calls' = [calls EXCEPT ![i] =
       [calls[i] EXCEPT
          !.pc = "backend", !.responses = Append(calls[i].responses, r),
          !.exchanges = Append(calls[i].exchanges,
                          Handle(calls[i].session_id, "_backend"))]]
  /\ UNCHANGED <<call_vars, extractor_vars, upload_vars>>

\* the backend exchange of call i returns r; the result is assembled
GenBackend(i, r) ==
  /\ calls[i].pc = "backend"
  /\ frames' = [frames EXCEPT ![FrameOf(i)].backend_result = BackendResult(r)]
  /\ calls' = [calls EXCEPT ![i] =
       [calls[i] EXCEPT
          !.pc = "done", !.responses = Append(calls[i].responses, r),
          !.result = ProjectResult(calls[i].prompt,
                       frames[FrameOf(i)].analysis,
                       frames[FrameOf(i)].frontend_result,
                       BackendResult(r))]]
  /\ UNCHANGED <<call_vars, extractor_vars, upload_vars>>

\* the exchange call i is suspended in raises a gateway error
GenFail(i) ==
  /\ calls[i].pc \in {"intent", "frontend", "backend"}
  /\ calls' = [calls EXCEPT ![i] = GenFallback(i)]
  /\ UNCHANGED frames
  /\ UNCHANGED <<call_vars, extractor_vars, upload_vars>>

NextConcurrent ==
  \E i \in CallIds :
    \/ \E p \in ConcurrentPrompts : \E sid \in SessionIds : GenStart(i, p, sid)
    \/ \E r \in ConcurrentIntents : GenIntent(i, r)
    \/ \E r \in ConcurrentFrontends : GenFrontend(i, r)
    \/ \E r \in ConcurrentBackends : GenBackend(i, r)
    \/ GenFail(i)

SpecConcurrent == Init /\ [][NextConcurrent]_vars

----------------------------------------------------------------------------

Next ==
  \/ \E c \in CallInputs : Call(c[1], c[2], c[3])
  \/ \E r \in IntentResponses : IntentRespond(r)
  \/ IntentFail
  \/ \E r \in FrontendResponses : FrontendRespond(r)
  \/ FrontendFail
  \/ \E r \in BackendResponses : BackendRespond(r)
  \/ BackendFail
  \/ \E c \in CallInputs : CallResponse(c[1], c[2], c[3])
  \/ \E r \in ChatResponses : ChatRespond(r)
  \/ \E e \in Exceptions : ChatFail(e)

Spec == Init /\ [][Next]_vars

----------------------------------------------------------------------------
(* Properties *)

\* the intent response has been processed: the analysis is bound and
\* response still holds the text of the intent exchange
IntentProcessed ==
  \/ pc = "frontend"
  \/ pc \in {"done", "raised"} /\ error.at = "frontend prompt"

\* the frontend response has been processed and response still holds it
FrontendProcessed == pc = "backend"

\* the payload the analyzer decodes, and the outcome of decoding it
Decoded == json_loads(IntentJsonStr(response))

\* the default descriptor, written out
DefaultDescriptor ==
  [kind |-> "dict",
   app_type |-> "\"landing_page\"",
   reference_site |-> "\"custom\"",
   key_components |-> "[\"header\", \"hero\", \"features\", \"footer\"]",
   visual_style |-> "\"modern\"",
   layout_pattern |-> "\"hero_sections\"",
   primary_features |-> "[\"responsive_design\"]"]

\* the html and css the frontend generator extracted from its response
ModelHtml == ExtractHtml(response)
ModelCss == ExtractCss(response)

IsVideo == analysis.app_type = "\"video_platform\""

StartsWith(t, m) == MatchAt(t, m, 1)
EndsWith(t, m) == MatchAt(t, m, Len(t) - Len(m) + 1)

\* the call is a call of generate_complete_project
InProject == exchanges # <<>> /\ exchanges[1][2] = "_analyzer"

\* C1: generate_complete_project never propagates an exception: the call
\* is never left by a raise, and whenever an exception left the try block
\* the call has returned a project result.
C1_NeverPropagates ==
  /\ pc # "raised"
  /\ InProject /\ error.type # "" => pc = "done" /\ result # NoResult

C1_Witness == pc = "done" /\ error.type = "AttributeError"

\* C2: every returned project result has a non-empty files list.
C2_FilesNonEmpty == pc = "done" => result.files # <<>>

\* C3: whenever a step of the orchestration raises, the result is the full
\* fallback project: the video-platform template, empty backend fields and
\* a readme that contains the request text.
C3_FallbackProject ==
  error.type # "" /\ pc = "done" =>
    /\ result.html_content = VideoFallbackHtml
    /\ result.css_content = <<"video fallback css">>
    /\ result.js_content = <<"video fallback js">>
    /\ result.python_backend = <<>>
    /\ result.requirements_txt = <<>>
    /\ Contains(result.readme, prompt)
    /\ result.readme # <<>>

C3_Witness ==
  /\ pc = "done"
  /\ error = [type |-> "GatewayError", at |-> "analyzer exchange"]
  /\ prompt = <<"build me a simple landing page">>

\* C4: every role is fail-safe: an error of a role's own exchange is caught
\* inside the role and never reaches the handler of the assembler.
C4_RolesFailSafe == error.type # "GatewayError"

\* C5 as stated: html extracted from the response that is shorter than 500
\* characters is replaced by the fallback artifact set of the application
\* type.
C5_ShortExtractedHtml ==
  FrontendProcessed /\ TextLen(ModelHtml) < 500 =>
    /\ frontend_result.html = (IF IsVideo THEN VideoFallbackHtml ELSE <<>>)
    /\ frontend_result.html # RepairHtml(ModelHtml) \/ ModelHtml = <<>>

\* C5 amended: html that is shorter than 500 characters after the
\* structural repairs is replaced by the fallback artifact set of the
\* application type, and the short html is never returned.
C5_ShortRepairedHtml ==
  FrontendProcessed /\ TextLen(RepairHtml(ModelHtml)) < 500 =>
    /\ frontend_result.html = (IF IsVideo THEN VideoFallbackHtml ELSE <<>>)
    /\ frontend_result.css =
         (IF IsVideo THEN <<"video fallback css">> ELSE <<>>)
    /\ frontend_result.js = (IF IsVideo THEN <<"video fallback js">> ELSE <<>>)
    /\ frontend_result.html # RepairHtml(ModelHtml) \/ ModelHtml = <<>>

C5_Witness ==
  /\ FrontendProcessed
  /\ TextLen(RepairHtml(ModelHtml)) = 499
  /\ Contains(ModelHtml, <<"<link">>)
  /\ IsVideo

\* the enhancement block of the application type of the descriptor
EnhancementBlock == IF IsVideo THEN VideoEnhancement ELSE GenericEnhancement

\* css is the enhancement block followed by the css of the model
IsEnhanced(css) ==
  /\ StartsWith(css, EnhancementBlock)
  /\ EndsWith(css, ModelCss)
  /\ Len(css) >= Len(EnhancementBlock) + Len(ModelCss)

\* C6 as stated: css extracted from the response that is shorter than 300
\* characters is returned prefixed with the enhancement block of the
\* application type.
C6_ShortCssEnhanced ==
  FrontendProcessed /\ extract_code_block(response, <<"css">>).found
    /\ TextLen(ModelCss) < 300 =>
      IsEnhanced(frontend_result.css)

\* C6 amended: when the repaired html has at least 500 characters, css
\* shorter than 300 characters is returned prefixed with the enhancement
\* block of the application type.
C6_ShortCssEnhancedWhenHtmlAccepted ==
  FrontendProcessed /\ TextLen(RepairHtml(ModelHtml)) >= 500
    /\ TextLen(ModelCss) < 300 =>
      IsEnhanced(frontend_result.css)

C6_Witness ==
  /\ FrontendProcessed
  /\ TextLen(RepairHtml(ModelHtml)) >= 500
  /\ ModelCss = ShortCss
  /\ IsVideo
  /\ frontend_result.css # ModelCss

\* C7: html without link and script tag that contains the closing head
\* and body tags is returned with exactly one inserted link line and
\* exactly one inserted script line, however often a closing tag occurs.
C7_OneInsertionEach ==
  FrontendProcessed /\ ModelHtml # <<>>
    /\ ~Contains(ModelHtml, <<"<link">>)
    /\ ~Contains(ModelHtml, <<"<script">>)
    /\ Contains(ModelHtml, <<"</head>">>)
    /\ Contains(ModelHtml, <<"</body>">>)
    /\ TextLen(RepairHtml(ModelHtml)) >= 500 =>
      /\ Count(frontend_result.html, "<link") = 1
      /\ Count(frontend_result.html, "<script") = 1
      /\ Contains(frontend_result.html, LinkRepair)
      /\ Contains(frontend_result.html, ScriptRepair)

\* C8: a response that is not parseable as JSON after fence stripping
\* yields the fixed default descriptor, and the analyzer does not raise.
C8_MalformedGivesDefault ==
  IntentProcessed /\ ~Decoded.ok =>
    /\ analysis = DefaultDescriptor
    /\ pc = "frontend"
    /\ error = NoError

C8_Witness ==
  /\ IntentProcessed
  /\ response = <<"I cannot help with that">>
  /\ analysis = DefaultDescriptor

\* C9: a response that parses as a JSON object lacking schema keys yields
\* the fixed default descriptor.
C9_MissingKeysGiveDefault ==
  IntentProcessed /\ Decoded.ok /\ Decoded.val.kind = "dict"
    /\ (\E k \in Keys : Get(Decoded.val, k, Absent) = Absent) =>
      analysis = DefaultDescriptor

\* C10: the descriptor the frontend generator is invoked with is a
\* mapping: JSON of another shape is replaced by the default descriptor.
C10_DescriptorIsMapping ==
  IntentProcessed =>
    /\ analysis.kind = "dict"
    /\ (Decoded.ok /\ Decoded.val.kind # "dict" => analysis = DefaultDescriptor)

----------------------------------------------------------------------------
(* The files list, the fallback library and the model table *)

FileNames(files) == [i \in 1..Len(files) |-> files[i].filename]

\* the order in which the assembler appends the files
FileOrder ==
  <<"index.html", "styles.css", "app.js", "server.py", "requirements.txt",
    "README.md", "package.json">>

Rank(name) == CHOOSE i \in 1..Len(FileOrder) : FileOrder[i] = name

\* names occurs in q in the order of names, not necessarily adjacent
RECURSIVE IsSubsequence(_, _)
IsSubsequence(names, q) ==
  IF names = <<>> THEN TRUE
  ELSE IF q = <<>> THEN FALSE
  ELSE IF Head(names) = Head(q) THEN IsSubsequence(Tail(names), Tail(q))
  ELSE IsSubsequence(names, Tail(q))

\* a complete but minimal frontend response: a document of a few tags and
\* one-line css and javascript blocks
MinimalFrontendResponse ==
  Block(<<"html">>, Doc(TRUE, TRUE, TRUE, 1, 1, <<>>))
    \o Block(<<"css">>, ShortCss) \o Block(<<"javascript">>, SomeJs)

\* C11: for the request  build me a simple landing page,  when every
\* exchange succeeds and the model returns a landing_page descriptor and
\* short html, css and javascript blocks, the files of the result include
\* index.html, styles.css, app.js and package.json in that relative order.
C11_LandingPageFiles ==
  ( /\ pc = "done"
    /\ error = NoError
    /\ prompt = <<"build me a simple landing page">>
    /\ analysis = json_loads(LandingDescriptor).val
    /\ frontend_response = MinimalFrontendResponse )
  => IsSubsequence(<<"index.html", "styles.css", "app.js", "package.json">>,
                   FileNames(result.files))

\* C12: in every project result the filenames of files are in the fixed
\* order index.html, styles.css, app.js, server.py, requirements.txt,
\* README.md, package.json, and no filename occurs twice.
C12_FilesInFixedOrder ==
  pc = "done" =>
    LET names == FileNames(result.files)
    IN  /\ \A i \in 1..Len(names) : names[i] \in Range(FileOrder)
        /\ \A i \in 1..Len(names) : \A j \in 1..Len(names) :
              i < j => Rank(names[i]) < Rank(names[j])

\* a result that holds every one of the seven files
C12_Witness ==
  /\ pc = "done"
  /\ FileNames(result.files) = FileOrder

\* the triple is complete: html that references styles.css and app.js,
\* css and js, none of them empty
CompleteTriple(t) ==
  /\ t.html # <<>>
  /\ Contains(t.html, <<"rel=\"stylesheet\" href=\"styles.css\">">>)
  /\ Contains(t.html, <<"src=\"app.js\">">>)
  /\ t.css # <<>>
  /\ t.js # <<>>

\* C13: the fallback library returns a complete triple for every
\* application type: whenever the frontend generator falls back, for a
\* video platform or for any other type, the artifacts it returns are
\* html that references styles.css and app.js, css and js, none empty.
C13_FallbackTripleComplete ==
  FrontendProcessed /\ HtmlTooShort(RepairHtml(ModelHtml)) =>
    /\ frontend_result = generate_fallback_frontend(analysis)
    /\ CompleteTriple(frontend_result)

\* C14: the selector of a call is (anthropic, claude-4-sonnet-20250514)
\* for claude-sonnet-4, (openai, gpt-5) for gpt-5, (openai, gpt-5-mini)
\* for gpt-5-mini, (gemini, gemini-2.5-pro) for gemini-2.5-pro, and
\* (openai, gpt-5) for every other identifier.
C14_ModelTable ==
  pc # "idle" =>
    /\ model = "claude-sonnet-4" =>
          selector = <<"anthropic", "claude-4-sonnet-20250514">>
    /\ model = "gpt-5" => selector = <<"openai", "gpt-5">>
    /\ model = "gpt-5-mini" => selector = <<"openai", "gpt-5-mini">>
    /\ model = "gemini-2.5-pro" => selector = <<"gemini", "gemini-2.5-pro">>
    /\ model \notin {"claude-sonnet-4", "gpt-5", "gpt-5-mini",
                      "gemini-2.5-pro"} => selector = <<"openai", "gpt-5">>

\* a call with an identifier outside the table got the default pair
C14_Witness ==
  /\ pc # "idle"
  /\ model = "llama-3"
  /\ selector = <<"openai", "gpt-5">>

----------------------------------------------------------------------------
(* The response extractor *)

\* C15: round trip of the extractor: for every label and every payload
\* that does not contain the fence, extracting the label from the text
\* made of the opening fence with that label, the payload and the closing
\* fence returns the payload without its surrounding whitespace.
C15_RoundTrip ==
  \A l \in Labels : \A c \in Cores : \A w1 \in Whitespace :
    \A w2 \in Whitespace :
      ( /\ xpc = "extracted"
        /\ label = l
        /\ text = Fenced(l, w1 \o c \o w2)
        /\ ~Contains(w1 \o c \o w2, Fence) )
      => extracted = [found |-> TRUE, val |-> c]

\* the labels of the blocks of a text
LabelsOf(bs) == {bs[i].label : i \in 1..Len(bs)}

\* C16: the extractor returns nothing when the text has no fenced block
\* introduced by exactly the requested label, also when a block carries
\* a label that begins with the requested one (js against json).
C16_AbsentLabelGivesNothing ==
  \A bs \in BlockSeqs :
    ( /\ xpc = "extracted"
      /\ text = BlockText(bs)
      /\ label \notin LabelsOf(bs) )
    => ~extracted.found

\* the first block of bs that carries label l
FirstWith(bs, l) ==
  bs[CHOOSE i \in 1..Len(bs) :
       /\ bs[i].label = l
       /\ \A j \in 1..(i - 1) : bs[j].label # l]

\* C17: in a text of several fenced blocks the extractor returns the
\* trimmed content of the first block with the requested label; blocks
\* with other labels before or after it and later blocks with the same
\* label do not change the result.
C17_FirstBlockOfLabel ==
  \A bs \in BlockSeqs :
    ( /\ xpc = "extracted"
      /\ text = BlockText(bs)
      /\ label \in LabelsOf(bs) )
    => extracted = [found |-> TRUE, val |-> BlockPayload(FirstWith(bs, label))]

----------------------------------------------------------------------------
(* The single-turn reply, the backend generator and the exchange order *)

\* C18: generate_response never raises: when the exchange fails the reply
\* is the apology with the error description in it, when it succeeds the
\* content is the response unchanged, and website_data and image_urls are
\* null in every reply.
C18_ResponseNeverRaises ==
  /\ error.at = "chat exchange" => pc = "replied"
  /\ pc = "replied" =>
        /\ reply.website_data = "None"
        /\ reply.image_urls = "None"
        /\ error = NoError => reply.content = response
        /\ error # NoError =>
              reply.content =
                <<"I apologize, but I encountered an error: ">>
                  \o ErrorText(error.type) \o <<". Please try again.">>

\* a failed exchange answered by the apology that names the error
C18_Witness ==
  /\ pc = "replied"
  /\ error.type = "GatewayError"
  /\ Contains(reply.content, <<"model gateway unavailable">>)

\* C19: the dependency manifest of the backend generator is never empty:
\* it is the content of the txt block when that block is present and not
\* empty, and the pinned default list when the block is missing or empty;
\* the server source is the content of the python block, or empty.
C19_ManifestNeverEmpty ==
  pc = "done" /\ error = NoError =>
    /\ backend_result.requirements # <<>>
    /\ result.requirements_txt = backend_result.requirements
    /\ result.python_backend = backend_result.python
    /\ \A python \in BOOLEAN : \A txt \in {"none", "empty", "some"} :
          response =
            (IF python THEN Block(<<"python">>, <<"app = FastAPI()">>)
             ELSE <<>>)
            \o (CASE txt = "none" -> <<>>
                  [] txt = "empty" -> Block(<<"txt">>, <<>>)
                  [] txt = "some" -> Block(<<"txt">>, <<"fastapi">>))
          => /\ backend_result.python =
                  (IF python THEN <<"app = FastAPI()">> ELSE <<>>)
             /\ backend_result.requirements =
                  (IF txt = "some" THEN <<"fastapi">>
                   ELSE <<"fastapi==0.104.1\nuvicorn==0.24.0\nmotor==3.3.2\npydantic==2.5.0\npython-dotenv==1.0.0">>)

\* an empty txt block answered by the default list
C19_Witness ==
  /\ pc = "done"
  /\ error = NoError
  /\ response = Block(<<"txt">>, <<>>)
  /\ result.requirements_txt = DefaultRequirements

\* C20: the exchanges of one project happen in the order intent analysis,
\* frontend generation, backend generation; an exchange starts only when
\* the exchange before it has completed and its response has been
\* processed, and at most one exchange is in flight.
C20_ExchangesInOrder ==
  /\ Cardinality(inflight) <= 1
  /\ InProject =>
        LET roles == [i \in 1..Len(exchanges) |-> exchanges[i][2]]
        IN  /\ Len(roles) <= 3
            /\ roles = SubSeq(<<"_analyzer", "_frontend", "_backend">>,
                               1, Len(roles))
            /\ inflight \subseteq {exchanges[Len(exchanges)]}
            /\ Len(roles) >= 2 => analysis.kind = "dict"
            /\ Len(roles) = 3 =>
                  frontend_result = FrontendResult(frontend_response, analysis)

\* the backend exchange in flight after the two others
C20_Witness ==
  /\ pc = "backend"
  /\ Len(exchanges) = 3
  /\ inflight = {Handle(session_id, "_backend")}

----------------------------------------------------------------------------
(* Exchanges issued, manifest and extraction order *)

\* the number of exchanges issued when the step named by the error failed
IssuedAt(at) ==
  CASE at = "analyzer exchange" -> 1
    [] at = "frontend prompt" -> 1
    [] at = "frontend exchange" -> 2
    [] at = "backend exchange" -> 3

\* C21: no retry and no hidden exchange: one project generation issues at
\* most one exchange for each role, three at most, none again after a
\* failure, and the fallback paths, the readme and the package manifest
\* issue none.
C21_NoRetry ==
  InProject =>
    /\ Len(exchanges) <= 3
    /\ \A i \in 1..Len(exchanges) :
          /\ exchanges[i][1] = session_id
          /\ exchanges[i][2] \in {"_analyzer", "_frontend", "_backend"}
          /\ \A j \in 1..Len(exchanges) :
                i # j => exchanges[i] # exchanges[j]
    /\ error # NoError =>
          /\ inflight = {}
          /\ Len(exchanges) = IssuedAt(error.at)
    /\ pc = "done" => inflight = {}

\* the frontend exchange failed and no third exchange was issued
C21_Witness ==
  /\ pc = "done"
  /\ error.at = "frontend exchange"
  /\ Len(exchanges) = 2
  /\ inflight = {}

\* the artifact field of the result that a file of the manifest holds
FieldFor(name) ==
  CASE name = "index.html" -> result.html_content
    [] name = "styles.css" -> result.css_content
    [] name = "app.js" -> result.js_content
    [] name = "server.py" -> result.python_backend
    [] name = "requirements.txt" -> result.requirements_txt
    [] name = "README.md" -> result.readme
    [] name = "package.json" -> result.package_json

\* C24: the manifest agrees with the artifact fields in every project
\* result: each of index.html, styles.css, app.js, server.py,
\* requirements.txt and README.md is in files exactly when its field is
\* not empty, package.json is always in files, and the content of each
\* entry equals its field.
C24_ManifestMatchesFields ==
  pc = "done" =>
    LET names == Range(FileNames(result.files))
    IN  /\ \A n \in Range(FileOrder) \ {"package.json"} :
              n \in names <=> FieldFor(n) # <<>>
        /\ "package.json" \in names
        /\ \A i \in 1..Len(result.files) :
              result.files[i].content = FieldFor(result.files[i].filename)

\* the html the extraction order of the claim gives for a response
HtmlByOrder(r) ==
  LET fenced == extract_code_block(r, <<"html">>)
  IN  IF fenced.found /\ fenced.val # <<>> THEN fenced.val
      ELSE IF Contains(r, <<"<!DOCTYPE">>) \/ Contains(r, <<"<html">>)
             THEN extract_html_direct(r)
      ELSE <<>>

\* C25: the frontend generator takes the html of the fenced html block
\* when that is not empty; otherwise, when the response holds a document
\* start marker (<!DOCTYPE, or <html without <!DOCTYPE), it takes the
\* document by direct extraction; css and js come from fenced blocks only.
C25_HtmlExtractionOrder ==
  FrontendProcessed =>
    /\ IF HtmlTooShort(RepairHtml(HtmlByOrder(response)))
         THEN frontend_result = generate_fallback_frontend(analysis)
         ELSE /\ frontend_result.html = RepairHtml(HtmlByOrder(response))
              /\ frontend_result.js =
                   OrElse(extract_code_block(response, <<"javascript">>),
                          OrElse(extract_code_block(response, <<"j", "s">>),
                                 <<>>))

\* the payloads that are valid JSON objects
JsonObjects ==
  {VideoDescriptor, LandingDescriptor} \cup PartialObjects
    \cup MistypedObjects

\* C26: the analyzer parses the content of the first json fence when
\* there is one, otherwise the content of any fenced block whatever its
\* label, otherwise the whole response; a valid JSON object in any of
\* these positions is returned as the descriptor.
C26_JsonExtractionPreference ==
  IntentProcessed =>
    \A p \in JsonObjects :
      response \in Presentations(p) => analysis = json_loads(p).val

\* C29: in every project result index.html is in files exactly when
\* styles.css is: accepted model html comes with css that is not empty,
\* since short or empty css gets the enhancement block in front; the
\* video fallback has both, the generic fallback and the fallback
\* project have neither.
C29_HtmlIffCss ==
  pc = "done" =>
    LET names == Range(FileNames(result.files))
    IN  "index.html" \in names <=> "styles.css" \in names

\* accepted model html whose response held no css at all
C29_Witness ==
  /\ pc = "done"
  /\ error = NoError
  /\ ExtractCss(frontend_response) = <<>>
  /\ result.html_content = RepairHtml(ExtractHtml(frontend_response))
  /\ "index.html" \in Range(FileNames(result.files))
  /\ "styles.css" \in Range(FileNames(result.files))

\* C30: degradation is all or nothing: when the exchange of a role fails
\* no exchange of a later role is issued and what the earlier roles
\* produced is discarded: the result holds the video-platform template,
\* an empty structure and an empty files list, also when the backend
\* exchange fails after the two others succeeded.
C30_AllOrNothing ==
  InProject /\ error.type = "GatewayError" =>
    /\ pc = "done"
    /\ inflight = {}
    /\ Len(exchanges) = IssuedAt(error.at)
    /\ result.html_content = VideoFallbackHtml
    /\ result.css_content = <<"video fallback css">>
    /\ result.js_content = <<"video fallback js">>
    /\ result.structure = EmptyDict
    /\ result.files = <<>>

\* the backend exchange failed after the model frontend had been accepted
C30_Witness ==
  /\ pc = "done"
  /\ error = [type |-> "GatewayError", at |-> "backend exchange"]
  /\ analysis.kind = "dict"
  /\ frontend_result.html = RepairHtml(ExtractHtml(frontend_response))
  /\ frontend_result.html # VideoFallbackHtml
  /\ result.html_content = VideoFallbackHtml

----------------------------------------------------------------------------
(* Direct document extraction *)

\* C27: direct extraction returns the text from the document start
\* marker (the first <!DOCTYPE, or the first <html when there is no
\* <!DOCTYPE) through the closing html tag of that document: what follows
\* the closing tag is not part of the result; without a start marker the
\* result is nothing.
C27_DocumentOnly ==
  xpc = "document" =>
    /\ \A pre \in Prefixes : \A d \in Documents : \A post \in Suffixes :
          text = pre \o d \o post => extracted = [found |-> TRUE, val |-> d]
    /\ ( ~Contains(text, <<"<!DOCTYPE">>) /\ ~Contains(text, <<"<html">>) )
          => extracted = [found |-> FALSE, val |-> <<>>]

----------------------------------------------------------------------------
(* File upload *)

\* C23: upload_file never propagates a failure of the storage backend:
\* for a file with a filename, whenever reading the file or put_object
\* fails, for any reason, the call returns the placeholder URL built
\* from the generated key.
C23_UploadNeverPropagates ==
  ( /\ upload.filename # <<>>
    /\ upload.failed_at \in {"read", "put"}
    /\ upload.seek = "ok" )
  => /\ upload.pc = "returned"
     /\ upload.url = <<"https://placeholder-storage.com/">> \o upload.key

----------------------------------------------------------------------------
(* Concurrent generations *)

\* the result of a call that runs alone: prompt p, the responses rs it
\* received, and whether an exchange failed after them
Alone(p, rs, failed) ==
  IF failed \/ Len(rs) < 3 THEN generate_fallback_project(p)
  ELSE ProjectResult(p, ParseIntent(rs[1]),
                     FrontendResult(rs[2], ParseIntent(rs[1])),
                     BackendResult(rs[3]))

\* C22: generations that run concurrently on one AIService, interleaved
\* at their exchanges in any order, are independent: what a call holds
\* is determined by its own responses, and each call returns the result
\* it would return if it ran alone with the same responses.
C22_Independent ==
  \A i \in CallIds :
    /\ calls[i].pc = "idle" => frames[i] = NoFrame
    /\ Len(calls[i].responses) >= 1 =>
          frames[i].analysis = ParseIntent(calls[i].responses[1])
    /\ calls[i].pc = "backend" =>
          frames[i].frontend_result =
            FrontendResult(calls[i].responses[2],
                           ParseIntent(calls[i].responses[1]))
    /\ calls[i].pc = "done" =>
          calls[i].result =
            Alone(calls[i].prompt, calls[i].responses, calls[i].failed)

\* call 1 has returned a video project while call 2, whose analysis is a
\* landing page, is still suspended in its backend exchange
C22_Witness ==
  /\ calls[1].pc = "done"
  /\ ~calls[1].failed
  /\ calls[2].pc = "backend"
  /\ calls[1].result.structure.app_type = "\"video_platform\""
  /\ frames[2].analysis.app_type = "\"landing_page\""
  /\ calls[1].result.html_content = VideoFallbackHtml
  /\ frames[2].frontend_result.html = <<>>

\* C28: conversation handles are never shared: the handles of the roles
\* of one generation are pairwise distinct, each the base handle with the
\* suffix of its role, and two generations with different base handles
\* have no handle in common.
C28_HandlesNotShared ==
  \A i \in CallIds :
    /\ \A m \in 1..Len(calls[i].exchanges) :
          /\ calls[i].exchanges[m] =
                <<calls[i].session_id,
                  <<"_analyzer", "_frontend", "_backend">>[m]>>
          /\ \A n \in 1..Len(calls[i].exchanges) :
                m # n => calls[i].exchanges[m] # calls[i].exchanges[n]
    /\ \A j \in CallIds :
          calls[i].session_id # calls[j].session_id =>
            Range(calls[i].exchanges) \cap Range(calls[j].exchanges) = {}

\* two generations with different base handles, three exchanges each
C28_Witness ==
  /\ calls[1].session_id # calls[2].session_id
  /\ Len(calls[1].exchanges) = 3
  /\ Len(calls[2].exchanges) = 3

====
